---- MODULE Spec2Model ----
(***************************************************************************)
(* The Express application of app.js and its payment router (payment.js).  *)
(*                                                                         *)
(* A string is a sequence of characters.  A character is a one-character   *)
(* string, except that the fixed words of the program ("users", "payment", *)
(* "filter", "Hello World", ...) and the escape triple "%41" are written   *)
(* as one element each.  A request target is such a string, exactly as it  *)
(* stands on the request line; the server splits, matches and decodes it.  *)
(***************************************************************************)
EXTENDS Integers, Sequences, FiniteSets, TLC

\* ------------------------------------------------------------------ bounds
\* The most characters a client puts in the places of <id> and <f> together.
MaxLen == 2
\* The most connections open at once.
MaxConns == 2

\* Characters a client may put in the place of <id> or <f>: a letter, a digit,
\* the delimiters of a URL, a lone percent sign, a well-formed escape, a plus.
Chars == {"a", "4", "/", "?", "&", "%", "%41", "+"}

StringsUpTo(n) == UNION {[1..k -> Chars] : k \in 0..n}

\* ------------------------------------------------------- string utilities
Absent == <<"<absent>">>

\* The element of a set of one element.  In Only({e : x \in {v}}) the value v
\* is computed once and e uses it under the name x, as with const x = v.
Only(S) == CHOOSE x \in S : TRUE

RECURSIVE IndexOf(_, _, _)
\* The first position >= i of s holding ch, or 0: String.prototype.indexOf.
IndexOf(s, ch, i) ==
  IF i > Len(s) THEN 0
  ELSE IF s[i] = ch THEN i
  ELSE IndexOf(s, ch, i + 1)

RECURSIVE Split(_, _)
\* s.split(ch): the pieces of s between occurrences of ch.
Split(s, ch) ==
  Only({ IF p = 0 THEN <<s>>
         ELSE <<SubSeq(s, 1, p - 1)>>
                \o Only({Split(rest, ch) : rest \in {SubSeq(s, p + 1, Len(s))}})
         : p \in {IndexOf(s, ch, 1)} })

RECURSIVE Join(_, _)
\* Array.prototype.join: what a template literal makes of an array.
Join(ss, ch) ==
  IF Len(ss) = 0 THEN <<>>
  ELSE IF Len(ss) = 1 THEN ss[1]
  ELSE ss[1] \o <<ch>> \o Join(Tail(ss), ch)

\* The case folding of a case-insensitive route match.
Fold(ch) ==
  CASE ch = "USERS" -> "users"
    [] ch = "PAYMENT" -> "payment"
    [] OTHER -> ch

FoldAll(s) == [i \in 1..Len(s) |-> Fold(s[i])]

\* decodeURIComponent on one character: a well-formed escape becomes the
\* character it encodes, everything else stays.
DecodeChar(ch) == IF ch = "%41" THEN "A" ELSE ch

\* decodeURIComponent throws URIError on a percent sign that starts no escape.
Undecodable(s) == \E i \in 1..Len(s) : s[i] = "%"

DecodeURIComponent(s) == [i \in 1..Len(s) |-> DecodeChar(s[i])]

\* ------------------------------------------------------------- requests
Methods == {"GET", "POST", "PUT", "PATCH", "DELETE"}

\* What a request carries after its head: nothing, a body that is not JSON,
\* a JSON body that parses, a JSON body that does not.
BodyKinds == {"none", "text", "json", "badjson"}

\* The request target a client forms from an id, without and with a filter.
PaymentTarget(id) == <<"/", "users", "/">> \o id \o <<"/", "payment">>

PaymentTargetFilter(id, f) == PaymentTarget(id) \o <<"?", "filter", "=">> \o f

RootTarget == <<"/">>

\* Targets beside the two shapes above.
OtherTargets ==
  { RootTarget,
    <<"/", "?", "a">>,
    <<"/", "/">>,
    <<"/", "users">>,
    <<"/", "payment">>,
    <<"/", "a">>,
    <<"/", "users", "/", "a", "/", "payment", "/">>,
    <<"/", "USERS", "/", "a", "/", "PAYMENT">>,
    <<"/", "users", "/", "a", "/", "payment", "/", "a">>,
    <<"/", "users", "/", "a", "/", "payment", "?", "a", "=", "a">>,
    <<"/", "users", "/", "a", "/", "payment", "?", "filter">>,
    <<"/", "users", "/", "a", "/", "payment", "?", "filter", "=", "a", "&", "filter", "=", "+">> }

Ids == StringsUpTo(MaxLen)

Targets ==
  {PaymentTarget(id) : id \in Ids}
    \cup UNION {{PaymentTargetFilter(id, f) : f \in StringsUpTo(MaxLen - Len(id))} : id \in Ids}
    \cup OtherTargets

Requests == [method : Methods, target : Targets, body : BodyKinds]

\* The requests of the concurrent specification: every kind of outcome, few strings.
ConcTargets ==
  { RootTarget,
    <<"/", "a">>,
    PaymentTarget(<<"%">>),
    PaymentTargetFilter(<<"%41">>, <<"+">>) }

ConcRequests ==
  [method : {"GET"}, target : ConcTargets, body : {"none", "json", "badjson"}]
    \cup {[method |-> "POST", target |-> RootTarget, body |-> "json"]}

NoReq == [method |-> "-", target |-> <<>>, body |-> "none"]

\* ------------------------------------------------- the target, taken apart
\* req.path: the target up to its first question mark.
Pathname(target) ==
  LET q == IndexOf(target, "?", 1) IN
  IF q = 0 THEN target ELSE SubSeq(target, 1, q - 1)

\* The query string: what follows the first question mark, if there is one.
Search(target) ==
  LET q == IndexOf(target, "?", 1) IN
  IF q = 0 THEN Absent ELSE SubSeq(target, q + 1, Len(target))

\* The query parser's decoder: a plus is a space, escapes are decoded, and a
\* string that does not decode is kept as it is.
QueryDecode(s) ==
  LET t == [i \in 1..Len(s) |-> IF s[i] = "+" THEN " " ELSE s[i]] IN
  IF Undecodable(t) THEN t ELSE DecodeURIComponent(t)

\* One key=value part of a query string; a part without "=" has the value "".
QueryPair(part) ==
  LET p == IndexOf(part, "=", 1) IN
  IF p = 0 THEN [key |-> QueryDecode(part), val |-> <<>>]
  ELSE [key |-> QueryDecode(SubSeq(part, 1, p - 1)),
        val |-> QueryDecode(SubSeq(part, p + 1, Len(part)))]

\* req.query[key]: the values the query string gives the key, in order.
QueryValues(target, key) ==
  IF Search(target) = Absent THEN <<>>
  ELSE LET IsKey(pr) == pr.key = key
           pairs == Only({ [i \in 1..Len(parts) |-> QueryPair(parts[i])]
                           : parts \in {Split(Search(target), "&")} })
       IN Only({ [i \in 1..Len(hits) |-> hits[i].val]
                 : hits \in {SelectSeq(pairs, IsKey)} })

\* As Interpolate, with an absent value rendered as the empty string.
InterpolateEmpty(vals) ==
  IF Len(vals) = 0 THEN <<>> ELSE Join(vals, ",")

\* `${v}` of req.query[key]: undefined when the key is absent, the string when
\* it occurs once, the values joined by commas when it occurs more often.
Interpolate(vals) ==
  IF Len(vals) = 0 THEN <<"undefined">> ELSE Join(vals, ",")

\* The segments of a path, by the route matcher's rules: the path starts
\* with a slash, and one trailing slash is optional.
Segments(pathname) ==
  Only({ IF Len(segs) >= 1 /\ segs[Len(segs)] = <<>>
         THEN SubSeq(segs, 1, Len(segs) - 1)
         ELSE segs
         : segs \in {Tail(Split(pathname, "/"))} })

\* A route path as its segments; a segment starting with a colon is a parameter.
PaymentPattern == <<"users", ":id", "payment">>

RootPattern == <<>>

IsParam(p) == p = ":id"

\* As SegmentMatches, with a parameter that takes the empty segment too.
SegmentMatchesEmpty(p, seg) ==
  IF IsParam(p) THEN Len(seg) >= 0 ELSE FoldAll(seg) = <<p>>

\* A parameter takes any non-empty segment; a fixed segment is compared
\* without regard to case.
SegmentMatches(p, seg) ==
  IF IsParam(p) THEN Len(seg) >= 1 ELSE FoldAll(seg) = <<p>>

PathMatches(pattern, pathname) ==
  \E segs \in {Segments(pathname)} :
    /\ Len(pathname) >= 1
    /\ pathname[1] = "/"
    /\ Len(segs) = Len(pattern)
    /\ \A i \in 1..Len(pattern) : SegmentMatches(pattern[i], segs[i])

\* The raw segment in the place of the pattern's parameter.
RawParam(pattern, pathname) ==
  Segments(pathname)[CHOOSE i \in 1..Len(pattern) : IsParam(pattern[i])]

HasParam(pattern) == \E i \in 1..Len(pattern) : IsParam(pattern[i])

\* A matching layer fails with status 400 when its parameter does not decode.
MatchFails(pattern, pathname) ==
  /\ PathMatches(pattern, pathname)
  /\ HasParam(pattern)
  /\ Undecodable(RawParam(pattern, pathname))

\* req.params.id
ParamsId(target) == DecodeURIComponent(RawParam(PaymentPattern, Pathname(target)))

\* req.query.filter
QueryFilter(target) == QueryValues(target, <<"filter">>)

\* ------------------------------------------------------------ responses
NoResp == [status |-> 0, ctype |-> "-", body |-> <<>>, by |-> "-"]

\* As ResSend, for res.json: the JSON type.
ResSendJson(body, by) ==
  [status |-> 200, ctype |-> "application/json; charset=utf-8", body |-> body, by |-> by]

\* res.send of a string: status 200, and the type Express gives a string
\* body when the handler has set none.
ResSend(body, by) ==
  [status |-> 200, ctype |-> "text/html; charset=utf-8", body |-> body, by |-> by]

\* As PaymentHandler, with the id read from the query string.
PaymentHandlerQueryId(req) ==
  LET userId == Interpolate(QueryValues(req.target, <<"id">>))
      filter == QueryFilter(req.target)
  IN ResSend(<<"User ID: ">> \o userId \o <<", Filter: ">> \o Interpolate(filter),
             "paymentHandler")

\* The handler of router.get('/users/:id/payment').
PaymentHandler(req) ==
  LET userId == ParamsId(req.target)
      filter == QueryFilter(req.target)
  IN ResSend(<<"User ID: ">> \o userId \o <<", Filter: ">> \o Interpolate(filter),
             "paymentHandler")

\* As RootHandler, ending the response without a body.
RootHandlerEnd(req) == ResSend(<<>>, "rootHandler")

\* The handler of app.get("/").
RootHandler(req) == ResSend(<<"Hello World">>, "rootHandler")

\* As PaymentHandlerCallsNext, with a handler that calls next() after res.send.
PaymentHandlerCallsNextToo(req) == TRUE

\* Whether a handler hands the request on after answering: neither takes a
\* next parameter, so neither does.
PaymentHandlerCallsNext(req) == FALSE

RootHandlerCallsNext(req) == FALSE

\* As PaymentHandlerWrites, with a handler that takes its router off the stack.
PaymentHandlerWritesUnmount(a, req) ==
  LET Stays(layer) == layer # "paymentRoute" IN
  [a EXCEPT !.stack = SelectSeq(a.stack, Stays)]

\* As PaymentHandlerWrites, with a handler that keeps the id in app.locals.
PaymentHandlerWritesLocals(a, req) ==
  [a EXCEPT !.locals = a.locals \cup {ParamsId(req.target)}]

\* What the two handlers write to the application object: nothing.
PaymentHandlerWrites(a, req) == a

RootHandlerWrites(a, req) == a

\* The framework's answer when the stack is exhausted: 404 without an error,
\* the error's status with one.
FinalHandler(req, err) ==
  IF err = 0
  THEN [status |-> 404, ctype |-> "text/html; charset=utf-8",
        body |-> <<"Cannot ", req.method, " ">> \o Pathname(req.target),
        by |-> "finalhandler"]
  ELSE [status |-> err, ctype |-> "text/html; charset=utf-8",
        body |-> <<"<error page>">>, by |-> "finalhandler"]

\* -------------------------------------------------------------- routers
\* The routes of the payment router.
PaymentRoutes == {[method |-> "GET", pattern |-> PaymentPattern]}

\* The user router is not part of the sources: it is a router with some
\* routes of its own, each answered by a handler of its own.
UserRouteCandidates ==
  { [method |-> "GET", pattern |-> RootPattern],
    [method |-> "GET", pattern |-> PaymentPattern],
    [method |-> "POST", pattern |-> <<"users">>] }

UserResponse == [status |-> 0, ctype |-> "-", body |-> <<"<opaque>">>, by |-> "userHandler"]

\* As RouterOutcome, for routes registered with router.all: any method.
RouterOutcomeAnyMethod(routes, req) ==
  Only({ IF \E rt \in routes : MatchFails(rt.pattern, path) THEN "error"
         ELSE IF \E rt \in routes : PathMatches(rt.pattern, path)
         THEN "respond"
         ELSE "pass"
         : path \in {Pathname(req.target)} })

\* A router offered a request: a route of the request's method whose path
\* matches takes it ("respond"); a matching path whose parameter does not
\* decode ends the router with an error ("error"); otherwise the router
\* calls next ("pass").  The path is matched before the method is looked at.
RouterOutcome(routes, req) ==
  Only({ IF \E rt \in routes : MatchFails(rt.pattern, path) THEN "error"
         ELSE IF \E rt \in routes : PathMatches(rt.pattern, path) /\ rt.method = req.method
         THEN "respond"
         ELSE "pass"
         : path \in {Pathname(req.target)} })

\* express.json(): a request with a JSON body is read before it goes on.
ReadsBody(req) == req.body \in {"json", "badjson"}

\* As JsonError, with the syntax error swallowed.
JsonErrorNone(req) == 0

\* The error, if any, of parsing a body that was read: 400 for a syntax error.
JsonError(req) == IF req.body = "badjson" THEN 400 ELSE 0

\* As RootRouteTakes, for a handler mounted on every path.
RootRouteTakesAnyPath(req) == req.method = "GET"

\* app.get("/", ...): the route takes a GET request whose path is "/".
RootRouteTakes(req) ==
  /\ PathMatches(RootPattern, Pathname(req.target))
  /\ req.method = "GET"

\* ------------------------------------------------------------- dispatch
\* As AppStack, with the payment router mounted ahead of the user router.
AppStackPaymentFirst == <<"json", "paymentRoute", "userRoute", "root">>

\* The stack app.js builds, in the order of its app.use and app.get calls.
AppStack == <<"json", "userRoute", "paymentRoute", "root">>

RECURSIVE Handle(_, _, _, _, _, _)
\* The application offered a request from layer i on, with the error so far
\* (0 for none) and the layers entered so far.  A layer that is not an error
\* handler is skipped while there is an error.  The result is either the
\* response ("done") or the layer at which the request waits ("reading").
Handle(stack, userRoutes, req, i, err, trace) ==
  IF i > Len(stack)
  THEN [st |-> "done", at |-> i, resp |-> FinalHandler(req, err),
        trace |-> Append(trace, "finalhandler")]
  ELSE IF err # 0
  THEN Handle(stack, userRoutes, req, i + 1, err, trace)
  ELSE IF stack[i] = "json"
  THEN IF ReadsBody(req)
       THEN [st |-> "reading", at |-> i, resp |-> NoResp, trace |-> Append(trace, "json")]
       ELSE Handle(stack, userRoutes, req, i + 1, 0, Append(trace, "json"))
  ELSE IF stack[i] = "userRoute"
  THEN LET o == RouterOutcome(userRoutes, req) IN
       IF o = "respond"
       THEN [st |-> "done", at |-> i, resp |-> UserResponse,
             trace |-> trace \o <<"userRoute", "userHandler">>]
       ELSE Handle(stack, userRoutes, req, i + 1, IF o = "error" THEN 400 ELSE 0,
                   Append(trace, "userRoute"))
  ELSE IF stack[i] = "paymentRoute"
  THEN LET o == RouterOutcome(PaymentRoutes, req) IN
       IF o = "respond"
       THEN [st |-> "done", at |-> i, resp |-> PaymentHandler(req),
             trace |-> LET tr == trace \o <<"paymentRoute", "paymentHandler">> IN
                       IF PaymentHandlerCallsNext(req)
                       THEN Handle(stack, userRoutes, req, i + 1, 0, tr).trace
                       ELSE tr]
       ELSE Handle(stack, userRoutes, req, i + 1, IF o = "error" THEN 400 ELSE 0,
                   Append(trace, "paymentRoute"))
  ELSE IF RootRouteTakes(req)
  THEN [st |-> "done", at |-> i, resp |-> RootHandler(req),
        trace |-> LET tr == Append(trace, "rootHandler") IN
                  IF RootHandlerCallsNext(req)
                  THEN Handle(stack, userRoutes, req, i + 1, 0, tr).trace
                  ELSE tr]
  ELSE Handle(stack, userRoutes, req, i + 1, 0, trace)

\* As ResTarget, with one res object kept for all connections.
ResTargetShared(c) == 1

\* The res object a handler of connection c answers on: its own.
ResTarget(c) == c

\* ---------------------------------------------------------------- state
VARIABLES app, userRoutes, conn, res

vars == <<app, userRoutes, conn, res>>

Conns == 1..MaxConns

Idle == [st |-> "idle", req |-> NoReq, at |-> 0, trace |-> <<>>]

Init ==
  /\ app = [stack |-> AppStack, listening |-> TRUE, port |-> 3000, locals |-> {}]
  /\ userRoutes \in SUBSET UserRouteCandidates
  /\ conn = [c \in Conns |-> Idle]
  /\ res = [c \in Conns |-> NoResp]

\* What a finished dispatch leaves in the application object.
AppAfter(a, req, out) ==
  IF out.st # "done" THEN a
  ELSE IF out.resp.by = "paymentHandler" THEN PaymentHandlerWrites(a, req)
  ELSE IF out.resp.by = "rootHandler" THEN RootHandlerWrites(a, req)
  ELSE a

\* The outcome of a dispatch step on connection c is recorded: the request's
\* position on the connection, the response on the res object.
Record(c, req, out) ==
  /\ conn' = [conn EXCEPT ![c] = [st |-> out.st, req |-> req, at |-> out.at,
                                  trace |-> out.trace]]
  /\ res' = IF out.st = "done" THEN [res EXCEPT ![ResTarget(c)] = out.resp] ELSE res
  /\ app' = AppAfter(app, req, out)
  /\ UNCHANGED userRoutes

\* A request, one of reqs, arrives on an idle connection and is dispatched,
\* up to its response or up to the reading of its body.
Accept(c, reqs) ==
  /\ app.listening
  /\ conn[c].st = "idle"
  /\ \E r \in reqs : Record(c, r, Handle(app.stack, userRoutes, r, 1, 0, <<>>))

\* The body of a waiting request has been read: it is parsed and the
\* dispatch goes on behind the parser, with the parser's error if any.
BodyEnd(c) ==
  /\ conn[c].st = "reading"
  /\ \E out \in {Handle(app.stack, userRoutes, conn[c].req, conn[c].at + 1,
                          JsonError(conn[c].req), conn[c].trace)} :
       Record(c, conn[c].req, out)

\* The response has gone out and the connection is free again.
Close(c) ==
  /\ conn[c].st = "done"
  /\ conn' = [conn EXCEPT ![c] = Idle]
  /\ res' = [res EXCEPT ![c] = NoResp]
  /\ UNCHANGED <<app, userRoutes>>

\* One client at a time, every string.
Next ==
  \/ Accept(1, Requests)
  \/ BodyEnd(1)
  \/ Close(1)

Spec == Init /\ [][Next]_vars

\* Several clients at once, few strings.
NextConc ==
  \/ \E c \in Conns : Accept(c, ConcRequests)
  \/ \E c \in Conns : BodyEnd(c)
  \/ \E c \in Conns : Close(c)

SpecConc == Init /\ [][NextConc]_vars

\* The requests that wait for a body, and two that do not pass the parser's
\* layer the same way: one the parser rejects, one it does not read.
LiveRequests ==
  {r \in ConcRequests : r.method = "GET" /\ r.body = "json"}
    \cup {[method |-> "GET", target |-> RootTarget, body |-> b] : b \in {"none", "badjson"}}

NextLive ==
  \/ \E c \in Conns : Accept(c, LiveRequests)
  \/ \E c \in Conns : BodyEnd(c)
  \/ \E c \in Conns : Close(c)

\* Several clients at once, each body read to its end: the event loop
\* delivers the end of a body that has arrived.
SpecLive == Init /\ [][NextLive]_vars /\ \A c \in Conns : WF_vars(BodyEnd(c))

\* ================================================================ claims
Done(c) == conn[c].st = "done"

Req(c) == conn[c].req

\* Characters that stand for themselves in a URL.
PlainChars == {"a", "4"}

Plain(s) == \A i \in 1..Len(s) : s[i] \in PlainChars

\* The request carries no body that the JSON parser rejects.
BodyAccepted(r) == r.body # "badjson"

\* The user router answered the request of connection c.
ByUser(c) == res[c].by = "userHandler"

Template(id, f) == <<"User ID: ">> \o id \o <<", Filter: ">> \o f

\* The strings a client put in the places of <id> and <f> of a target of the
\* shape /users/<id>/payment or /users/<id>/payment?filter=<f>: what stands
\* between "/users/" and "/payment", and what follows "?filter=".
ClientId(t) == SubSeq(t, 4, IndexOf(t, "payment", 1) - 2)

ClientFilter(t) == SubSeq(t, IndexOf(t, "payment", 1) + 4, Len(t))

\* The target is /users/<id>/payment?filter=<f> for some strings id and f.
FilterShape(t) == t = PaymentTargetFilter(ClientId(t), ClientFilter(t))

\* The target is /users/<id>/payment for some string id, with no query string.
NoFilterShape(t) == t = PaymentTarget(ClientId(t))

\* C1, as stated: for all strings id and f, a GET request to
\* /users/<id>/payment?filter=<f> is answered by the payment handler with the
\* body 'User ID: <id>, Filter: <f>'.  (Requests the user router answers are
\* set aside, in the claim's favour.)
C1_Original ==
  \A c \in Conns :
    ( /\ Done(c) /\ Req(c).method = "GET" /\ ~ByUser(c)
      /\ FilterShape(Req(c).target) ) =>
    /\ res[c].by = "paymentHandler"
    /\ res[c].body = Template(ClientId(Req(c).target), ClientFilter(Req(c).target))

\* C1, amended: for every non-empty id and every f made of characters that
\* stand for themselves in a URL, a GET request to
\* /users/<id>/payment?filter=<f> whose body the JSON parser does not reject
\* and which the user router does not answer is answered by the payment
\* handler with the body 'User ID: <id>, Filter: <f>'.
C1_Amended ==
  \A c \in Conns :
    LET id == ClientId(Req(c).target)
        f == ClientFilter(Req(c).target)
    IN ( /\ Done(c) /\ Req(c).method = "GET"
         /\ FilterShape(Req(c).target)
         /\ Len(id) >= 1 /\ Plain(id) /\ Plain(f)
         /\ BodyAccepted(Req(c))
         /\ ~ByUser(c) ) =>
       /\ res[c].by = "paymentHandler"
       /\ res[c].body = Template(id, f)

C1_Witness ==
  \E c \in Conns :
    /\ Done(c) /\ Req(c).method = "GET"
    /\ Req(c).target = PaymentTargetFilter(<<"4">>, <<"a">>)
    /\ res[c].by = "paymentHandler"
    /\ res[c].body = <<"User ID: ", "4", ", Filter: ", "a">>

\* C2, as stated: for all strings id, a GET request to /users/<id>/payment
\* without a filter parameter returns the body 'User ID: <id>, Filter: undefined'.
\* (Requests the user router answers are set aside, in the claim's favour.)
C2_Original ==
  \A c \in Conns :
    ( /\ Done(c) /\ Req(c).method = "GET" /\ ~ByUser(c)
      /\ NoFilterShape(Req(c).target) ) =>
    res[c].body = Template(ClientId(Req(c).target), <<"undefined">>)

\* C2, amended: for every non-empty id made of characters that stand for
\* themselves in a URL, a GET request to /users/<id>/payment without a query
\* string, whose body the JSON parser does not reject and which the user
\* router does not answer, returns the body 'User ID: <id>, Filter: undefined'.
C2_Amended ==
  \A c \in Conns :
    LET id == ClientId(Req(c).target) IN
    ( /\ Done(c) /\ Req(c).method = "GET"
      /\ NoFilterShape(Req(c).target)
      /\ Len(id) >= 1 /\ Plain(id)
      /\ BodyAccepted(Req(c))
      /\ ~ByUser(c) ) =>
    res[c].body = Template(id, <<"undefined">>)

C2_Witness ==
  \E c \in Conns :
    /\ Done(c) /\ Req(c).method = "GET"
    /\ Req(c).target = PaymentTarget(<<"4", "a">>)
    /\ res[c].body = <<"User ID: ", "4", "a", ", Filter: ", "undefined">>

\* The target is "/", with or without a query string.
ToRoot(t) == t = RootTarget \/ (Len(t) >= 2 /\ t[1] = "/" /\ t[2] = "?")

Unrouted(r) ==
  LET path == Pathname(r.target) IN
  /\ ~PathMatches(RootPattern, path)
  /\ ~PathMatches(PaymentPattern, path)
  /\ \A rt \in userRoutes : ~PathMatches(rt.pattern, path)

Handlers == {"userHandler", "paymentHandler", "rootHandler"}

NoHandlerRan(c) == \A i \in 1..Len(conn[c].trace) : conn[c].trace[i] \notin Handlers

\* C4, as stated: a request whose path matches neither /, nor
\* /users/:id/payment, nor a route of the user router receives the default
\* 404 response, and no application handler runs for it.
C4_Original ==
  \A c \in Conns : Done(c) /\ Unrouted(Req(c)) =>
    /\ res[c].status = 404
    /\ res[c].by = "finalhandler"
    /\ NoHandlerRan(c)

\* C4, amended: a request whose path matches neither /, nor
\* /users/:id/payment, nor a route of the user router, and whose body the
\* JSON parser does not reject, receives the default 404 response, and no
\* application handler runs for it.
C4_Amended ==
  \A c \in Conns : Done(c) /\ Unrouted(Req(c)) /\ BodyAccepted(Req(c)) =>
    /\ res[c].status = 404
    /\ res[c].by = "finalhandler"
    /\ NoHandlerRan(c)

C4_Witness ==
  \E c \in Conns :
    /\ Done(c) /\ Unrouted(Req(c))
    /\ Req(c).target = <<"/", "users", "/", "a", "/", "payment", "/", "a">>
    /\ Req(c).body = "json"
    /\ res[c].status = 404

\* The path of the request is one the payment route takes.
PaymentRouted(r) == PathMatches(PaymentPattern, Pathname(r.target))

\* C5: the payment route is idempotent: two identical requests to
\* /users/:id/payment get identical responses (status and body), whatever
\* requests were served before and between them.
C5_Idempotent ==
  \A c \in Conns : \A d \in Conns :
    ( /\ Done(c) /\ Done(d)
      /\ Req(c) = Req(d)
      /\ PaymentRouted(Req(c)) ) =>
    /\ res[c].status = res[d].status
    /\ res[c].body = res[d].body

C5_Witness ==
  \E c \in Conns : \E d \in Conns :
    /\ c # d
    /\ Done(c) /\ Done(d)
    /\ Req(c) = Req(d)
    /\ Req(c).target = PaymentTargetFilter(<<"%41">>, <<"+">>)
    /\ res[c].by = "paymentHandler"
    /\ res[d].by = "paymentHandler"

\* The request of connection c is to /users/<id>/payment, with or without a filter.
ToPayment(c) == NoFilterShape(Req(c).target) \/ FilterShape(Req(c).target)

HasChar(s, ch) == \E i \in 1..Len(s) : s[i] = ch

\* A segment of one's own: no slash, no question mark.
OneSegment(id) == ~HasChar(id, "/") /\ ~HasChar(id, "?")

Decoded(id) == [i \in 1..Len(id) |-> IF id[i] = "%41" THEN "A" ELSE id[i]]

\* C6, as stated: a request with a malformed or missing id still matches
\* /users/:id/payment and gets the templated response, never an error
\* response.  (Requests the user router answers or the JSON parser rejects are
\* set aside, in the claim's favour.)
C6_Original ==
  \A c \in Conns :
    LET id == ClientId(Req(c).target) IN
    ( /\ Done(c) /\ Req(c).method = "GET" /\ BodyAccepted(Req(c)) /\ ~ByUser(c)
      /\ ToPayment(c) /\ OneSegment(id) ) =>
    /\ res[c].by = "paymentHandler"
    /\ res[c].status = 200

\* C6, amended: the payment route checks nothing about the id: a GET request
\* (body not rejected by the JSON parser, not answered by the user router)
\* whose id is any non-empty segment whose escapes decode matches the route
\* and gets the templated response with the decoded id, whatever the id's
\* format; a missing (empty) id matches no route and gets the default 404; an
\* id with a malformed escape gets the default 400.
C6_Amended ==
  \A c \in Conns :
    LET id == ClientId(Req(c).target) IN
    ( /\ Done(c) /\ Req(c).method = "GET" /\ BodyAccepted(Req(c)) /\ ~ByUser(c)
      /\ ToPayment(c) /\ OneSegment(id) ) =>
    /\ (Len(id) >= 1 /\ ~HasChar(id, "%")) =>
         /\ res[c].by = "paymentHandler"
         /\ res[c].status = 200
         /\ SubSeq(res[c].body, 1, 2 + Len(id))
              = <<"User ID: ">> \o Decoded(id) \o <<", Filter: ">>
    /\ Len(id) = 0 =>
         /\ res[c].by = "finalhandler"
         /\ res[c].status = 404
    /\ HasChar(id, "%") =>
         /\ res[c].by = "finalhandler"
         /\ res[c].status = 400

C6_Witness ==
  \E c \in Conns :
    /\ Done(c) /\ Req(c).method = "GET"
    /\ Req(c).target = PaymentTarget(<<"&", "+">>)
    /\ res[c].by = "paymentHandler"
    /\ res[c].body = <<"User ID: ", "&", "+", ", Filter: ", "undefined">>

ServedAlone(r) ==
  LET first == Handle(AppStack, userRoutes, r, 1, 0, <<>>) IN
  IF first.st = "done" THEN first
  ELSE Handle(AppStack, userRoutes, r, first.at + 1, JsonError(r), first.trace)

\* C8: requests do not interleave inside a handler and share no state: in
\* every order of arrivals and body reads, a request waits only at the body
\* parser, before any router or handler has seen it, and the response to each
\* request is the one it would get if served alone.
C8_Isolated ==
  \A c \in Conns :
    /\ Done(c) => res[c] = ServedAlone(Req(c)).resp
    /\ ~Done(c) => res[c] = NoResp
    /\ conn[c].st = "reading" =>
         /\ app.stack[conn[c].at] = "json"
         /\ conn[c].trace = <<"json">>

C8_Witness ==
  \E c \in Conns : \E d \in Conns :
    /\ conn[c].st = "reading"
    /\ Req(c).target = RootTarget
    /\ Done(d)
    /\ Req(d).target = PaymentTargetFilter(<<"%41">>, <<"+">>)
    /\ res[d].body = <<"User ID: ", "A", ", Filter: ", " ">>

\* C9: a step in which the payment handler or the root handler answers a
\* request changes nothing but that request's connection and response: the
\* application object, the user router's routes and every other connection
\* and response stay as they were.
C9_NoSideEffect ==
  [][ \A c \in Conns :
        (res[c] = NoResp /\ res'[c].by \in {"paymentHandler", "rootHandler"}) =>
          /\ app' = app
          /\ userRoutes' = userRoutes
          /\ \A d \in Conns \ {c} : conn'[d] = conn[d] /\ res'[d] = res[d] ]_vars

C9_Witness ==
  \E c \in Conns : \E d \in Conns :
    /\ Done(c) /\ res[c].by = "paymentHandler"
    /\ Done(d) /\ res[d].by = "rootHandler"
    /\ app = [stack |-> AppStack, listening |-> TRUE, port |-> 3000, locals |-> {}]

Entered(c, layer) == \E i \in 1..Len(conn[c].trace) : conn[c].trace[i] = layer

\* C10, as stated: a request the framework itself rejects is answered with
\* the default error response and never reaches the user router, the payment
\* handler or the root handler.
C10_Original ==
  \A c \in Conns : Done(c) /\ res[c].status = 400 =>
    /\ res[c].by = "finalhandler"
    /\ ~Entered(c, "userRoute")
    /\ NoHandlerRan(c)

\* C10, amended: a request whose JSON body fails to parse is answered with
\* the default error response and reaches neither router and no handler; a
\* request rejected later, for an id whose escape does not decode, is
\* answered with the default error response too and no handler runs for it,
\* but it has been offered to the user router; neither the payment handler
\* nor the root handler produces an error response.
C10_Amended ==
  \A c \in Conns : Done(c) =>
    /\ Req(c).body = "badjson" =>
         /\ res[c].status = 400
         /\ res[c].by = "finalhandler"
         /\ conn[c].trace = <<"json", "finalhandler">>
    /\ res[c].status = 400 =>
         /\ res[c].by = "finalhandler"
         /\ NoHandlerRan(c)
    /\ res[c].by \in {"paymentHandler", "rootHandler"} => res[c].status < 400

C10_Witness ==
  \E c \in Conns :
    /\ Done(c)
    /\ Req(c) = [method |-> "GET", target |-> PaymentTarget(<<"4">>), body |-> "badjson"]
    /\ res[c].status = 400
    /\ conn[c].trace = <<"json", "finalhandler">>

\* The place of a trace entry in the order of app.js: the body parser, the
\* user router and its handler, the payment router and its handler, the root
\* handler, the default response.
Rank(entry) ==
  CASE entry = "json" -> 1
    [] entry = "userRoute" -> 2
    [] entry = "userHandler" -> 3
    [] entry = "paymentRoute" -> 4
    [] entry = "paymentHandler" -> 5
    [] entry = "rootHandler" -> 6
    [] OTHER -> 7

Responders == Handlers \cup {"finalhandler"}

\* A route of the user router takes the request: same method, matching path.
UserRouteFor(r) ==
  \E rt \in userRoutes :
    rt.method = r.method /\ PathMatches(rt.pattern, Pathname(r.target))

\* C11: every request is offered to the stages in the order JSON body parser,
\* user router, payment router, root handler, and the first stage that
\* responds ends the dispatch: the payment handler and the root handler
\* answer only requests the user router was offered and did not take, and a
\* user-router GET route on /users/:id/payment or on / answers in their place.
C11_StageOrder ==
  \A c \in Conns : conn[c].st # "idle" =>
    LET tr == conn[c].trace
        path == Pathname(Req(c).target)
    IN /\ tr[1] = "json"
       /\ \A i \in 1..(Len(tr) - 1) : Rank(tr[i]) < Rank(tr[i + 1])
       /\ \A i \in 1..(Len(tr) - 1) : tr[i] \notin Responders
       /\ Done(c) => tr[Len(tr)] = res[c].by
       /\ res[c].by \in {"paymentHandler", "rootHandler"} =>
            /\ Entered(c, "userRoute")
            /\ ~UserRouteFor(Req(c))
       /\ ( /\ Done(c) /\ Req(c).method = "GET" /\ BodyAccepted(Req(c))
            /\ [method |-> "GET", pattern |-> PaymentPattern] \in userRoutes
            /\ PathMatches(PaymentPattern, path)
            /\ ~HasChar(Segments(path)[2], "%") ) => ByUser(c)
       /\ ( /\ Done(c) /\ Req(c).method = "GET" /\ BodyAccepted(Req(c))
            /\ [method |-> "GET", pattern |-> RootPattern] \in userRoutes
            /\ PathMatches(RootPattern, path) ) => ByUser(c)

C11_Witness ==
  \E c \in Conns :
    /\ Done(c)
    /\ [method |-> "GET", pattern |-> PaymentPattern] \in userRoutes
    /\ Req(c) = [method |-> "GET", target |-> PaymentTarget(<<"4">>), body |-> "json"]
    /\ conn[c].trace = <<"json", "userRoute", "userHandler">>
    /\ res[c].by = "userHandler"

\* The number of responding stages a request went through.
Responses(c) ==
  Cardinality({i \in 1..Len(conn[c].trace) : conn[c].trace[i] \in Responders})

\* C12: every accepted request that the user router does not take gets
\* exactly one response: a request that is answered went through exactly one
\* responding stage (a handler that answered did not hand it on, an untaken
\* request got the one default response), and a request waiting for its body
\* is eventually answered.
C12_OneResponse ==
  /\ [](\A c \in Conns : (Done(c) /\ ~ByUser(c)) =>
          /\ res[c] # NoResp
          /\ Responses(c) = 1)
  /\ \A c \in Conns : (conn[c].st = "reading") ~> Done(c)

C12_Witness ==
  \E c \in Conns : \E d \in Conns :
    /\ Done(c)
    /\ Req(c).body = "json"
    /\ res[c].by = "paymentHandler"
    /\ conn[c].trace = <<"json", "userRoute", "paymentRoute", "paymentHandler">>
    /\ conn[d].st = "reading"

\* The methods that change state.
StateChanging == {"POST", "PUT", "PATCH", "DELETE"}

\* Connection c has answered a state-changing request to /users/<id>/payment
\* or to /.
Changing(c) ==
  /\ Done(c)
  /\ Req(c).method \in StateChanging
  /\ (ToPayment(c) \/ ToRoot(Req(c).target))

PaymentOrRootRan(c) ==
  \E i \in 1..Len(conn[c].trace) : conn[c].trace[i] \in {"paymentHandler", "rootHandler"}

\* The framework rejects the request: its JSON body does not parse, or it is
\* to /users/<id>/payment with an id of one segment that does not decode.
Rejected(c) ==
  \/ ~BodyAccepted(Req(c))
  \/ /\ ToPayment(c)
     /\ OneSegment(ClientId(Req(c).target))
     /\ HasChar(ClientId(Req(c).target), "%")

\* C13, as stated: a POST, PUT, PATCH or DELETE request to /users/<id>/payment
\* or to / never invokes the payment handler or the root handler and, unless
\* the user router answers it, gets the default 404 response.
C13_Original ==
  \A c \in Conns : Changing(c) =>
    /\ ~PaymentOrRootRan(c)
    /\ ~ByUser(c) => (res[c].by = "finalhandler" /\ res[c].status = 404)

\* C13, amended: a POST, PUT, PATCH or DELETE request to /users/<id>/payment
\* or to / never invokes the payment handler or the root handler and, unless
\* the user router answers it, gets the framework's default response: 400
\* when the JSON body does not parse or the id does not decode, 404 otherwise.
C13_Amended ==
  \A c \in Conns : Changing(c) =>
    /\ ~PaymentOrRootRan(c)
    /\ ~ByUser(c) =>
         /\ res[c].by = "finalhandler"
         /\ res[c].status = IF Rejected(c) THEN 400 ELSE 404

C13_Witness ==
  \E c \in Conns :
    /\ Changing(c)
    /\ Req(c) = [method |-> "DELETE", target |-> PaymentTarget(<<"4">>), body |-> "json"]
    /\ [method |-> "GET", pattern |-> PaymentPattern] \in userRoutes
    /\ conn[c].trace = <<"json", "userRoute", "paymentRoute", "finalhandler">>
    /\ res[c].status = 404

====
